---------------------------- MODULE Spec2Model ----------------------------
(***************************************************************************)
(* Model of scripts/backup-database.js (class DatabaseBackup): the backup  *)
(* directory, the clock, and one run of the script per process:            *)
(* ensureBackupDirectory, performBackup (pg_dump, stat, compressBackup),   *)
(* cleanOldBackups, sendNotification, process.exit.                        *)
(*                                                                         *)
(* Time is counted in whole seconds since the epoch (the code's            *)
(* milliseconds divided by 1000).  A file name is the sequence of the      *)
(* character codes of its characters, so that names compare as strings do. *)
(***************************************************************************)
EXTENDS Integers, Sequences, FiniteSets, TLC

VARIABLES
    now,          \* the wall clock, seconds since the epoch (Date.now() / 1000)
    tzOffset,     \* the process time zone: local time = UTC + tzOffset seconds
    retention,    \* CONFIG.backup.retention: [daily, weekly, monthly]
    dirExists,    \* fs.existsSync(this.backupDir)
    dir,          \* the backup directory: file name -> [mtime, size, run, partial]
    pc,           \* per process: where its run() stands
    isScheduled,  \* per process: this.isScheduled
    runId,        \* per process: the number of the invocation it is running
    filepath,     \* per process: performBackup's filepath (the name in backupDir)
    sizeMB,       \* per process: performBackup's sizeMB (hundredths of a MB)
    result,       \* per process: the value performBackup returned
    exitCode,     \* per process: the code given to process.exit (NoCode: none yet)
    stages,       \* per process: the stages of run() executed so far, in order
    notified,     \* per process: the results handed to sendNotification
    outcome,      \* per process: what pg_dump, stat, gzip, stat did in this run
    dirAtStart,   \* per process: the directory as it was when the run started
    runCount,     \* invocations started so far
    lastStart,    \* the instant the latest invocation started (-1: none yet)
    sweeps,       \* the cleanOldBackups calls made so far, oldest first
    nameT,        \* the two instants of the file-name specification
    names         \* the names getBackupFilename gave for them (<<>>: not yet)

envVars   == <<now, tzOffset, retention>>
fsVars    == <<dirExists, dir>>
runVars   == <<pc, isScheduled, runId, filepath, sizeMB, result, exitCode,
               stages, notified, outcome, dirAtStart, runCount, lastStart>>
nameVars  == <<nameT, names>>
vars      == <<envVars, fsVars, runVars, sweeps, nameVars>>

-----------------------------------------------------------------------------
(* Strings as sequences of character codes.                                *)

Min(a, b) == IF a <= b THEN a ELSE b

\* "0".."9"
Digit(d) == 48 + d

\* String(n).padStart(2, "0") for 0 <= n <= 99
Pad2(n) == <<Digit(n \div 10), Digit(n % 10)>>

\* String(y).padStart(4, "0") for 0 <= y <= 9999
Pad4(y) == <<Digit(y \div 1000), Digit((y \div 100) % 10),
             Digit((y \div 10) % 10), Digit(y % 10)>>

Dash       == 45   \* "-"
Prefix     == <<122, 111, 110, 101, 50, 53, 49, 52, 95,
                98, 97, 99, 107, 117, 112, 95>>          \* "zone2514_backup_"
Underscore == <<95>>                                     \* "_"
SqlExt     == <<46, 115, 113, 108>>                      \* ".sql"
GzExt      == <<46, 103, 122>>                           \* ".gz"

\* String.prototype.startsWith
startsWith(s, p) == Len(s) >= Len(p) /\ SubSeq(s, 1, Len(p)) = p

\* s < t as JavaScript (and sort(1), ls) compare strings: code unit by code unit
LexLess(s, t) ==
    \E i \in 1..(Min(Len(s), Len(t)) + 1) :
        /\ \A j \in 1..(i - 1) : s[j] = t[j]
        /\ \/ i > Len(s) /\ i <= Len(t)
           \/ i <= Len(s) /\ i <= Len(t) /\ s[i] < t[i]

-----------------------------------------------------------------------------
(* getBackupFilename: the UTC date of toISOString, the local time of       *)
(* toTimeString.                                                           *)

secondsPerDay == 24 * 60 * 60

\* The proleptic Gregorian date [y, m, d] of day number z (0 = 1970-01-01),
\* which is what Date.prototype.toISOString prints.
CivilFromDays(z) ==
    LET zz   == z + 719468
        era  == zz \div 146097
        doe  == zz - era * 146097
        yoe  == (doe - (doe \div 1460) + (doe \div 36524) - (doe \div 146096)) \div 365
        doy  == doe - (365 * yoe + (yoe \div 4) - (yoe \div 100))
        mp   == (5 * doy + 2) \div 153
        d    == doy - ((153 * mp + 2) \div 5) + 1
        m    == IF mp < 10 THEN mp + 3 ELSE mp - 9
        y    == yoe + era * 400 + (IF m <= 2 THEN 1 ELSE 0)
    IN  [y |-> y, m |-> m, d |-> d]

\* date.toISOString().split('T')[0]: "YYYY-MM-DD" of the UTC date of instant t
dateStr(t) ==
    LET c == CivilFromDays(t \div secondsPerDay)
    IN  Pad4(c.y) \o <<Dash>> \o Pad2(c.m) \o <<Dash>> \o Pad2(c.d)

\* date.toTimeString().split(' ')[0].replace(/:/g, '-'): "HH-MM-SS" of the
\* LOCAL time of instant t in a zone off seconds east of UTC
timeStr(t, off) ==
    LET s == (t + off) % secondsPerDay
    IN  Pad2(s \div 3600) \o <<Dash>> \o Pad2((s \div 60) % 60) \o <<Dash>> \o Pad2(s % 60)

getBackupFilename(t, off) ==
    Prefix \o dateStr(t) \o Underscore \o timeStr(t, off) \o SqlExt

-----------------------------------------------------------------------------
(* The backup directory.                                                   *)

\* A file of the directory: its modification time, its size in bytes, the
\* invocation that wrote it (0: it was there before any), and whether it is
\* the partial output of an export that failed.
File(mtime, size, run, partial) ==
    [mtime |-> mtime, size |-> size, run |-> run, partial |-> partial]

EmptyDir == <<>>

\* the directory d with file f written (created or overwritten)
WriteFile(d, f, file) == (f :> file) @@ d

\* fs.unlinkSync: the directory d without file f
\* unlink as a dry run: the file is reported removed and left in place
unlinkNothing(d, f) == d

unlink(d, f) == [g \in (DOMAIN d) \ {f} |-> d[g]] @@ EmptyDir

-----------------------------------------------------------------------------
(* cleanOldBackups.                                                        *)

oneDay   == 24 * 60 * 60
oneWeek  == 7 * oneDay
oneMonth == 30 * oneDay

\* CONFIG.backup.retention
CONFIG_retention == [daily |-> 30, weekly |-> 12, monthly |-> 12]

\* fs.readdirSync(this.backupDir).filter(f => f.startsWith('zone2514_backup_'))
readdirFiltered(d) == {f \in DOMAIN d : startsWith(f, Prefix)}

\* .map(f => ({name, path, time: statSync(...).mtime.getTime()}))
\* .sort((a, b) => b.time - a.time): every order of the listed files with the
\* modification times descending.  Array.prototype.sort is stable, so files of
\* equal time stay in readdir's order, which the file system chooses.
RECURSIVE sortedFiles(_, _)
sortedFiles(d, S) ==
    IF S = {} THEN {<<>>}
    ELSE LET top    == CHOOSE f \in S : \A g \in S : d[f].mtime >= d[g].mtime
             newest == {f \in S : d[f].mtime = d[top].mtime}
         IN  UNION {{<<[name |-> f, time |-> d[f].mtime]>> \o rest :
                        rest \in sortedFiles(d, S \ {f})} : f \in newest}

\* shouldKeep with ">" for "<" in the three age tests
shouldKeepReversed(age, index, r) ==
    IF age > r.daily * oneDay THEN TRUE
    ELSE IF age > r.weekly * oneWeek /\ index % 7 = 0 THEN TRUE
    ELSE IF age > r.monthly * oneMonth /\ index % 30 = 0 THEN TRUE
    ELSE FALSE

\* shouldKeep with "<=" for "<" in the three age tests
shouldKeepInclusive(age, index, r) ==
    IF age <= r.daily * oneDay THEN TRUE
    ELSE IF age <= r.weekly * oneWeek /\ index % 7 = 0 THEN TRUE
    ELSE IF age <= r.monthly * oneMonth /\ index % 30 = 0 THEN TRUE
    ELSE FALSE

\* shouldKeep without its monthly branch
shouldKeepNoMonthly(age, index, r) ==
    IF age < r.daily * oneDay THEN TRUE
    ELSE IF age < r.weekly * oneWeek /\ index % 7 = 0 THEN TRUE
    ELSE FALSE

\* the body of the forEach callback up to "if (!shouldKeep)": lines 160-174
shouldKeep(age, index, r) ==
    IF age < r.daily * oneDay THEN TRUE
    ELSE IF age < r.weekly * oneWeek /\ index % 7 = 0 THEN TRUE
    ELSE IF age < r.monthly * oneMonth /\ index % 30 = 0 THEN TRUE
    ELSE FALSE

\* forEachFile with the unlinkSync wrapped in a try/catch of its own: the
\* file that cannot be deleted is skipped and the loop goes on
RECURSIVE forEachFileSkipFailed(_, _, _, _, _, _)
forEachFileSkipFailed(files, i, st, t, r, failAt) ==
    IF i > Len(files) THEN st
    ELSE LET file  == files[i]
             index == i - 1
             age   == t - file.time
         IN  IF ~shouldKeep(age, index, r)
             THEN IF st.removed + 1 = failAt /\ ~st.error
                  THEN forEachFileSkipFailed(files, i + 1, [st EXCEPT !.error = TRUE],
                                             t, r, failAt)
                  ELSE forEachFileSkipFailed(files, i + 1,
                                             [st EXCEPT !.dir = unlink(@, file.name),
                                                        !.removed = @ + 1],
                                             t, r, failAt)
             ELSE forEachFileSkipFailed(files, i + 1, [st EXCEPT !.kept = @ + 1],
                                        t, r, failAt)

\* files.forEach((file, index) => ...) from position i on.  st is [dir, kept,
\* removed, error]; failAt = j > 0 makes the j-th unlinkSync of the sweep throw,
\* which leaves the forEach for the catch of line 188.
RECURSIVE forEachFile(_, _, _, _, _, _)
forEachFile(files, i, st, t, r, failAt) ==
    IF i > Len(files) THEN st
    ELSE LET file  == files[i]
             index == i - 1
             age   == t - file.time
         IN  IF ~shouldKeep(age, index, r)
             THEN IF st.removed + 1 = failAt
                  THEN [st EXCEPT !.error = TRUE]
                  ELSE forEachFile(files, i + 1,
                                   [st EXCEPT !.dir = unlink(@, file.name),
                                              !.removed = @ + 1],
                                   t, r, failAt)
             ELSE forEachFile(files, i + 1, [st EXCEPT !.kept = @ + 1], t, r, failAt)

\* One call of cleanOldBackups at instant t on directory d: listFails is
\* readdirSync or a statSync throwing (before anything is deleted), files the
\* sorted list, failAt as above.  The record is what the call did.
sweep(d, t, r, files, listFails, failAt, run) ==
    LET st0 == [dir |-> d, kept |-> 0, removed |-> 0, error |-> FALSE]
        st  == IF listFails THEN [st0 EXCEPT !.error = TRUE]
               ELSE forEachFile(files, 1, st0, t, r, failAt)
    IN  [run |-> run, now |-> t, retention |-> r, before |-> d,
         files |-> IF listFails THEN <<>> ELSE files,
         kept |-> st.kept, removed |-> st.removed, error |-> st.error,
         after |-> st.dir]

-----------------------------------------------------------------------------
(* Bounds and the inputs the environment chooses from.                     *)

Procs == {1, 2}

MaxRuns        == 3    \* invocations of the script in one behaviour
MaxUnlinkFault == 2    \* the latest unlinkSync of a sweep that may throw

\* 2024-02-28T23:59:58Z
StartTime == 19781 * secondsPerDay + 86398

\* the time that passes between two invocations
TickSteps == {1, 31 * oneDay, 100 * oneDay}

\* process time zones, seconds east of UTC (UTC, Europe/Athens, America/New_York)
TZOffsets == {0, 2 * 3600, 0 - 5 * 3600}

\* the sizes in bytes pg_dump and gzip may write
DumpSizes    == {1572864}
GzSizes      == {524288, 1572000}
PartialSizes == {0}

NoCode == 0 - 1

NoResult == [ready |-> FALSE, success |-> FALSE, filepath |-> <<>>, size |-> 0 - 1]
NoOutcome == [dump |-> "none", stat |-> "none", gzip |-> "none", gzstat |-> "none"]

-----------------------------------------------------------------------------
(* One invocation of the script by process p.                              *)

\* (stats.size / (1024 * 1024)).toFixed(2), in hundredths of a megabyte
toFixed2MB(bytes) == (bytes * 200 + 1024 * 1024) \div (2 * 1024 * 1024)

Idle(p) == pc[p] \in {"idle", "done"}

\* afterPerformBackup pruning on manual runs too: "if (result.success)"
afterPerformBackupAnyRun(p, r) == IF r.success THEN "retain" ELSE "notify"

\* afterPerformBackup pruning after a failed dump too: "if (this.isScheduled)"
afterPerformBackupAnyResult(p, r) == IF isScheduled[p] THEN "retain" ELSE "notify"

\* what run() does after performBackup returned r: lines 216-220
afterPerformBackup(p, r) == IF r.success /\ isScheduled[p] THEN "retain" ELSE "notify"

\* { success: false, error: error.message }
failure == [ready |-> TRUE, success |-> FALSE, filepath |-> <<>>, size |-> 0 - 1]

\* { success: true, filepath, size: sizeMB }
success(p) == [ready |-> TRUE, success |-> TRUE, filepath |-> filepath[p], size |-> sizeMB[p]]

\* performBackupResult with compressBackup's error reaching performBackup's catch
performBackupResultStrict(p, compressed) == IF compressed THEN success(p) ELSE failure

\* what performBackup returns once compressBackup has returned, whether gzip
\* and the stat of the .gz went well (compressed) or compressBackup caught an
\* error: lines 101-106
performBackupResult(p, compressed) == success(p)

\* exitStatus as "process.exit(0)"
exitStatusZero(r) == 0

\* result.success ? 0 : 1
exitStatus(r) == IF r.success THEN 0 ELSE 1

\* new DatabaseBackup(CONFIG); backup.run(): a new process starts
Construct(p) ==
    /\ Idle(p)
    /\ runCount < MaxRuns
    /\ \E sched \in BOOLEAN : isScheduled' = [isScheduled EXCEPT ![p] = sched]
    /\ runCount' = runCount + 1
    /\ runId' = [runId EXCEPT ![p] = runCount + 1]
    /\ lastStart' = now
    /\ pc' = [pc EXCEPT ![p] = "ensure"]
    /\ filepath' = [filepath EXCEPT ![p] = <<>>]
    /\ sizeMB' = [sizeMB EXCEPT ![p] = 0 - 1]
    /\ result' = [result EXCEPT ![p] = NoResult]
    /\ exitCode' = [exitCode EXCEPT ![p] = NoCode]
    /\ stages' = [stages EXCEPT ![p] = <<>>]
    /\ notified' = [notified EXCEPT ![p] = <<>>]
    /\ outcome' = [outcome EXCEPT ![p] = NoOutcome]
    /\ dirAtStart' = [dirAtStart EXCEPT ![p] = dir]
    /\ sweeps' = SelectSeq(sweeps, LAMBDA s : s.run # runId[p])
    /\ UNCHANGED <<envVars, fsVars, nameVars>>

\* ensureBackupDirectory without the existsSync test and without
\* { recursive: true }: mkdirSync throws EEXIST on a directory that is there
ensureBackupDirectoryNoCheck(p) ==
    /\ pc[p] = "ensure"
    /\ stages' = [stages EXCEPT ![p] = Append(@, "ENSURE_DIRECTORY")]
    /\ IF dirExists
       THEN /\ pc' = [pc EXCEPT ![p] = "fatal"]
            /\ UNCHANGED dirExists
       ELSE \E ok \in BOOLEAN :
                /\ dirExists' = ok
                /\ pc' = [pc EXCEPT ![p] = IF ok THEN "dump" ELSE "fatal"]
    /\ UNCHANGED <<envVars, dir, isScheduled, runId, filepath, sizeMB, result, exitCode,
                   notified, outcome, dirAtStart, runCount, lastStart, sweeps, nameVars>>

\* this.ensureBackupDirectory(): mkdirSync may throw, which rejects run()
ensureBackupDirectory(p) ==
    /\ pc[p] = "ensure"
    /\ stages' = [stages EXCEPT ![p] = Append(@, "ENSURE_DIRECTORY")]
    /\ IF dirExists
       THEN /\ pc' = [pc EXCEPT ![p] = "dump"]
            /\ UNCHANGED dirExists
       ELSE \E ok \in BOOLEAN :
                /\ dirExists' = ok
                /\ pc' = [pc EXCEPT ![p] = IF ok THEN "dump" ELSE "fatal"]
    /\ UNCHANGED <<envVars, dir, isScheduled, runId, filepath, sizeMB, result, exitCode,
                   notified, outcome, dirAtStart, runCount, lastStart, sweeps, nameVars>>

\* performBackup up to the end of "await execPromise(dumpCommand, ...)": the
\* export writes filepath and exits 0, or fails, leaving nothing or a partial
\* file behind; the catch of line 107 deletes nothing.
pgDump(p) ==
    /\ pc[p] = "dump"
    /\ LET f == getBackupFilename(now, tzOffset) IN
       /\ filepath' = [filepath EXCEPT ![p] = f]
       /\ stages' = [stages EXCEPT ![p] = Append(@, "DUMP")]
       /\ \/ \E size \in DumpSizes :
                /\ dir' = WriteFile(dir, f, File(now, size, runId[p], FALSE))
                /\ outcome' = [outcome EXCEPT ![p].dump = "ok"]
                /\ pc' = [pc EXCEPT ![p] = "stat"]
                /\ UNCHANGED result
          \/ /\ \/ UNCHANGED dir
                \/ \E size \in PartialSizes :
                      dir' = WriteFile(dir, f, File(now, size, runId[p], TRUE))
             /\ outcome' = [outcome EXCEPT ![p].dump = "failed"]
             /\ result' = [result EXCEPT ![p] = failure]
             /\ pc' = [pc EXCEPT ![p] = afterPerformBackup(p, failure)]
    /\ UNCHANGED <<envVars, dirExists, isScheduled, runId, sizeMB, exitCode,
                   notified, dirAtStart, runCount, lastStart, sweeps, nameVars>>

\* const stats = fs.statSync(filepath); sizeMB = ...: lines 95-99; a throw goes
\* to the catch of line 107
statDump(p) ==
    /\ pc[p] = "stat"
    /\ \E ok \in BOOLEAN :
          /\ ok => filepath[p] \in DOMAIN dir
          /\ outcome' = [outcome EXCEPT ![p].stat = IF ok THEN "ok" ELSE "failed"]
          /\ IF ok
             THEN /\ sizeMB' = [sizeMB EXCEPT ![p] = toFixed2MB(dir[filepath[p]].size)]
                  /\ pc' = [pc EXCEPT ![p] = "gzip"]
                  /\ UNCHANGED result
             ELSE /\ result' = [result EXCEPT ![p] = failure]
                  /\ pc' = [pc EXCEPT ![p] = afterPerformBackup(p, failure)]
                  /\ UNCHANGED sizeMB
    /\ UNCHANGED <<envVars, fsVars, isScheduled, runId, filepath, exitCode, stages,
                   notified, dirAtStart, runCount, lastStart, sweeps, nameVars>>

\* compressBackup up to the end of "await execPromise(`gzip -f ...`)": gzip
\* replaces filepath by filepath.gz (keeping its modification time), or fails
\* and leaves the file as it was; its catch makes performBackup return success
gzip(p) ==
    /\ pc[p] = "gzip"
    /\ stages' = [stages EXCEPT ![p] = Append(@, "COMPRESS")]
    /\ LET f == filepath[p] IN
       \/ /\ f \in DOMAIN dir
          /\ \E size \in GzSizes :
                dir' = WriteFile(unlink(dir, f), f \o GzExt,
                                 File(dir[f].mtime, size, runId[p], FALSE))
          /\ outcome' = [outcome EXCEPT ![p].gzip = "ok"]
          /\ pc' = [pc EXCEPT ![p] = "gzstat"]
          /\ UNCHANGED result
       \/ /\ UNCHANGED dir
          /\ outcome' = [outcome EXCEPT ![p].gzip = "failed"]
          /\ result' = [result EXCEPT ![p] = performBackupResult(p, FALSE)]
          /\ pc' = [pc EXCEPT ![p] = afterPerformBackup(p, performBackupResult(p, FALSE))]
    /\ UNCHANGED <<envVars, dirExists, isScheduled, runId, filepath, sizeMB, exitCode,
                   notified, dirAtStart, runCount, lastStart, sweeps, nameVars>>

\* fs.statSync(compressedPath) and the rest of compressBackup, then
\* performBackup's "return { success: true, filepath, size: sizeMB }"
statCompressed(p) ==
    /\ pc[p] = "gzstat"
    /\ \E ok \in BOOLEAN :
          /\ ok => (filepath[p] \o GzExt) \in DOMAIN dir
          /\ outcome' = [outcome EXCEPT ![p].gzstat = IF ok THEN "ok" ELSE "failed"]
          /\ result' = [result EXCEPT ![p] = performBackupResult(p, ok)]
          /\ pc' = [pc EXCEPT ![p] = afterPerformBackup(p, performBackupResult(p, ok))]
    /\ UNCHANGED <<envVars, fsVars, isScheduled, runId, filepath, sizeMB, exitCode, stages,
                   notified, dirAtStart, runCount, lastStart, sweeps, nameVars>>

\* await this.cleanOldBackups(): the whole sweep, with the errors it catches
cleanOldBackups(p) ==
    /\ pc[p] = "retain"
    /\ stages' = [stages EXCEPT ![p] = Append(@, "RETAIN")]
    /\ \E listFails \in BOOLEAN, failAt \in 0..MaxUnlinkFault :
          /\ listFails => failAt = 0
          /\ \E files \in sortedFiles(dir, readdirFiltered(dir)) :
                LET s == sweep(dir, now, retention, files, listFails, failAt, runId[p])
                IN  /\ dir' = s.after
                    /\ sweeps' = Append(sweeps, s)
    /\ pc' = [pc EXCEPT ![p] = "notify"]
    /\ UNCHANGED <<envVars, dirExists, isScheduled, runId, filepath, sizeMB, result,
                   exitCode, notified, outcome, dirAtStart, runCount, lastStart, nameVars>>

\* await this.sendNotification(result): CONFIG.notifications.enabled is false
sendNotification(p) ==
    /\ pc[p] = "notify"
    /\ stages' = [stages EXCEPT ![p] = Append(@, "NOTIFY")]
    /\ notified' = [notified EXCEPT ![p] = Append(@, result[p])]
    /\ pc' = [pc EXCEPT ![p] = "exit"]
    /\ UNCHANGED <<envVars, fsVars, isScheduled, runId, filepath, sizeMB, result, exitCode,
                   outcome, dirAtStart, runCount, lastStart, sweeps, nameVars>>

\* process.exit(result.success ? 0 : 1)
exit(p) ==
    /\ pc[p] = "exit"
    /\ stages' = [stages EXCEPT ![p] = Append(@, "END")]
    /\ exitCode' = [exitCode EXCEPT ![p] = exitStatus(result[p])]
    /\ pc' = [pc EXCEPT ![p] = "done"]
    /\ UNCHANGED <<envVars, fsVars, isScheduled, runId, filepath, sizeMB, result,
                   notified, outcome, dirAtStart, runCount, lastStart, sweeps, nameVars>>

\* fatal with a handler that only logs: .catch(error => console.error(...))
fatalNoExit(p) ==
    /\ pc[p] = "fatal"
    /\ pc' = [pc EXCEPT ![p] = "done"]
    /\ UNCHANGED <<envVars, fsVars, isScheduled, runId, filepath, sizeMB, result, exitCode,
                   stages, notified, outcome, dirAtStart, runCount, lastStart, sweeps,
                   nameVars>>

\* backup.run().catch(error => { ...; process.exit(1) })
fatal(p) ==
    /\ pc[p] = "fatal"
    /\ exitCode' = [exitCode EXCEPT ![p] = 1]
    /\ pc' = [pc EXCEPT ![p] = "done"]
    /\ UNCHANGED <<envVars, fsVars, isScheduled, runId, filepath, sizeMB, result, stages,
                   notified, outcome, dirAtStart, runCount, lastStart, sweeps, nameVars>>

\* Time passes between two invocations.
Tick ==
    /\ \A p \in Procs : Idle(p)
    /\ lastStart = now
    /\ \E d \in TickSteps : now' = now + d
    /\ UNCHANGED <<tzOffset, retention, fsVars, runVars, sweeps, nameVars>>

\* The invocations of the sequential specification: one process, one run at a
\* time, consecutive runs started in different seconds.
Launch(p) ==
    /\ \A q \in Procs : Idle(q)
    /\ now > lastStart
    /\ Construct(p)

Step(p) ==
    \/ ensureBackupDirectory(p)
    \/ pgDump(p)
    \/ statDump(p)
    \/ gzip(p)
    \/ statCompressed(p)
    \/ cleanOldBackups(p)
    \/ sendNotification(p)
    \/ exit(p)
    \/ fatal(p)

InitRun ==
    /\ pc = [p \in Procs |-> "idle"]
    /\ isScheduled = [p \in Procs |-> FALSE]
    /\ runId = [p \in Procs |-> 0]
    /\ filepath = [p \in Procs |-> <<>>]
    /\ sizeMB = [p \in Procs |-> 0 - 1]
    /\ result = [p \in Procs |-> NoResult]
    /\ exitCode = [p \in Procs |-> NoCode]
    /\ stages = [p \in Procs |-> <<>>]
    /\ notified = [p \in Procs |-> <<>>]
    /\ outcome = [p \in Procs |-> NoOutcome]
    /\ dirAtStart = [p \in Procs |-> EmptyDir]
    /\ runCount = 0
    /\ lastStart = 0 - 1

InitName == nameT = <<>> /\ names = <<>>

Init ==
    /\ now = StartTime
    /\ tzOffset \in TZOffsets
    /\ retention = CONFIG_retention
    /\ dirExists \in BOOLEAN
    /\ dir = EmptyDir
    /\ sweeps = <<>>
    /\ InitRun
    /\ InitName

Next ==
    \/ Launch(1)
    \/ Step(1)
    \/ Tick

Spec == Init /\ [][Next]_vars

\* The same, with every external call of a started run returning or failing:
\* the process goes on to its next step.
Fairness == \A p \in Procs : WF_vars(Step(p))

MaxFairRuns == 2   \* invocations of the script in one behaviour

LaunchFair(p) ==
    /\ runCount < MaxFairRuns
    /\ Launch(p)

NextFair ==
    \/ LaunchFair(1)
    \/ Step(1)
    \/ Tick

SpecFair == Init /\ [][NextFair]_vars /\ Fairness

-----------------------------------------------------------------------------
(* Overlapping invocations: two processes run the script on the same       *)
(* directory, their steps interleaved in any order.                        *)

MaxConcRuns == 2   \* invocations of the script in one behaviour
MaxElapse   == 1   \* seconds that pass while the invocations run

\* a process starts whether or not the other one is running
Start(p) ==
    /\ runCount < MaxConcRuns
    /\ Construct(p)

\* a second passes, whatever the processes are doing
Elapse ==
    /\ now < StartTime + MaxElapse
    /\ now' = now + 1
    /\ UNCHANGED <<tzOffset, retention, fsVars, runVars, sweeps, nameVars>>

NextConc ==
    \/ \E p \in Procs : Start(p) \/ Step(p)
    \/ Elapse

\* both processes read the same clock in the same time zone
InitConc == Init /\ tzOffset = 0

SpecConc == InitConc /\ [][NextConc]_vars

-----------------------------------------------------------------------------
(* cleanOldBackups on its own: the sweep applied, once and again, to        *)
(* directories of artifacts, with no time passing and no error raised.     *)

MaxFiles  == 40   \* artifacts in the directory
MaxSweeps == 2    \* calls of cleanOldBackups in succession

RetentionConfigs ==
    {CONFIG_retention,
     [daily |-> 1, weekly |-> 12, monthly |-> 12],
     [daily |-> 30, weekly |-> 12, monthly |-> 1],
     [daily |-> 7, weekly |-> 4, monthly |-> 3]}

\* the age of the newest artifact, and the time from one artifact to the next
Firsts == {0, oneDay - 1}
Gaps   == {oneDay, 3 * oneDay, 10 * oneDay}

\* the artifact (if any) whose uncompressed dump of the same second is there too
Twins  == {0 - 1, 7}

\* n compressed artifacts: the i-th (0 = newest) written first + i * gap before t
RECURSIVE ArtifactDir(_, _, _, _, _)
ArtifactDir(n, t, first, gap, twin) ==
    IF n = 0 THEN EmptyDir
    ELSE LET i     == n - 1
             mtime == t - first - i * gap
             name  == getBackupFilename(mtime, 0)
             rest  == ArtifactDir(n - 1, t, first, gap, twin)
             one   == WriteFile(rest, name \o GzExt, File(mtime, 524288, 0, FALSE))
         IN  IF i = twin THEN WriteFile(one, name, File(mtime, 1572864, 0, FALSE))
             ELSE one

InitSweep ==
    /\ now = StartTime
    /\ tzOffset = 0
    /\ retention \in RetentionConfigs
    /\ dirExists = TRUE
    /\ \E n \in 0..MaxFiles, first \in Firsts, gap \in Gaps, twin \in Twins :
          dir = ArtifactDir(n, now, first, gap, twin)
    /\ sweeps = <<>>
    /\ InitRun
    /\ InitName

\* one call of cleanOldBackups
Sweep ==
    /\ Len(sweeps) < MaxSweeps
    /\ \E files \in sortedFiles(dir, readdirFiltered(dir)) :
          LET s == sweep(dir, now, retention, files, FALSE, 0, 0)
          IN  /\ dir' = s.after
              /\ sweeps' = Append(sweeps, s)
    /\ UNCHANGED <<envVars, dirExists, runVars, nameVars>>

NextSweep == Sweep

SpecSweep == InitSweep /\ [][NextSweep]_vars

-----------------------------------------------------------------------------
(* getBackupFilename on its own: two calls at least one second apart in    *)
(* one time zone.                                                          *)

\* instants around the UTC midnight of 2024-02-28/29 and the local midnights
\* of the zones of TZOffsets
Instants ==
    {StartTime + d : d \in {0 - 19 * 3600, 0 - 19 * 3600 + 2, 0 - 2 * 3600,
                            0 - 2 * 3600 + 2, 0, 1, 2, 3600, oneDay, oneDay + 2}}

InitNames ==
    /\ now = StartTime
    /\ tzOffset \in TZOffsets
    /\ retention = CONFIG_retention
    /\ dirExists = TRUE
    /\ dir = EmptyDir
    /\ sweeps = <<>>
    /\ InitRun
    /\ nameT \in {tt \in Instants \X Instants : tt[1] + 1 <= tt[2]}
    /\ names = <<>>

\* the two calls of getBackupFilename
NameBoth ==
    /\ names = <<>>
    /\ names' = <<getBackupFilename(nameT[1], tzOffset),
                  getBackupFilename(nameT[2], tzOffset)>>
    /\ UNCHANGED <<envVars, fsVars, runVars, sweeps, nameT>>

NextNames == NameBoth

SpecNames == InitNames /\ [][NextNames]_vars

-----------------------------------------------------------------------------
(* cleanOldBackups on a directory that holds other entries besides the     *)
(* artifacts the script wrote.                                             *)

MaxStrayFiles == 8   \* artifacts in the directory, besides the other entries

\* "notes.txt": an entry the startsWith filter of line 143 drops
NotesName == <<110, 111, 116, 101, 115, 46, 116, 120, 116>>

\* "zone2514_backup_README.md": an entry the script never wrote that the
\* startsWith filter of line 143 lets through
ReadmeName == Prefix \o <<82, 69, 65, 68, 77, 69, 46, 109, 100>>

\* how long ago an entry that is not an artifact was written (-1: not there)
StrayAges == {0 - 1, 0, 100 * oneDay, 400 * oneDay}

\* d with the entry f written age seconds before t, if it is there at all
WithEntry(d, f, t, age) ==
    IF age < 0 THEN d ELSE WriteFile(d, f, File(t - age, 4096, 0, FALSE))

InitStray ==
    /\ now = StartTime
    /\ tzOffset = 0
    /\ retention \in RetentionConfigs
    /\ dirExists = TRUE
    /\ \E n \in 0..MaxStrayFiles, gap \in Gaps, a, b \in StrayAges :
          dir = WithEntry(WithEntry(ArtifactDir(n, now, 0, gap, 0 - 1), NotesName, now, a),
                          ReadmeName, now, b)
    /\ sweeps = <<>>
    /\ InitRun
    /\ InitName

NextStray == Sweep

SpecStray == InitStray /\ [][NextStray]_vars

-----------------------------------------------------------------------------
(* The claims.                                                             *)

Done(p) == pc[p] = "done"

\* performBackup has returned in p's current run
Returned(p) == result[p].ready

\* the candidate artifacts of the directory that p's current run wrote
OwnArtifacts(p) == {f \in readdirFiltered(dir) : dir[f].run = runId[p]}

\* the sweeps made by p's current run
OwnSweeps(p) == {k \in 1..Len(sweeps) : sweeps[k].run = runId[p]}

\* C1 as stated: when a run has exited, its exit code is 0 if the pg_dump
\* export succeeded and 1 if it did not.
C1_ExitZeroIffExportSucceeded ==
    \A p \in Procs :
        Done(p) =>
            /\ exitCode[p] \in {0, 1}
            /\ exitCode[p] = 0 <=> outcome[p].dump = "ok"

\* C1 amended: when a run has exited, its exit code is 0 if the pg_dump export
\* succeeded and the statSync of the dump file that follows it did not throw,
\* and 1 otherwise, whatever gzip, the stat of the .gz and the sweep did.
C1_ExitZeroIffDumpAndStatSucceeded ==
    \A p \in Procs :
        Done(p) =>
            /\ exitCode[p] \in {0, 1}
            /\ exitCode[p] = 0 <=> (outcome[p].dump = "ok" /\ outcome[p].stat = "ok")

\* a scheduled run has exited with 0 although gzip failed and its sweep
\* ended in an error
C1_Witness ==
    \E p \in Procs :
        /\ Done(p) /\ exitCode[p] = 0
        /\ outcome[p].gzip = "failed"
        /\ \E k \in OwnSweeps(p) : sweeps[k].error

\* C2: once the export of a run has failed, the directory holds no file of
\* that run that cleanOldBackups lists as a candidate.
C2_FailedExportLeavesNoArtifact ==
    \A p \in Procs :
        (Returned(p) /\ outcome[p].dump = "failed") => OwnArtifacts(p) = {}

\* compressBackup failed in p's current run: gzip failed, or the .gz could not
\* be stat'ed
CompressFailed(p) == outcome[p].gzip = "failed" \/ outcome[p].gzstat = "failed"

\* C3 as stated: once performBackup has returned after a compression failure,
\* the uncompressed artifact is in the directory, the result is a success and
\* the run exits with 0.
C3_CompressionFailureKeepsUncompressed ==
    \A p \in Procs :
        (Returned(p) /\ CompressFailed(p)) =>
            /\ result[p].success
            /\ Done(p) => exitCode[p] = 0
            /\ filepath[p] \in DOMAIN dir

\* C3 amended: once performBackup has returned after a compression failure,
\* the result is a success, the run exits with 0, and the artifact is in the
\* directory in exactly one form: uncompressed if gzip failed, as the .gz
\* (the uncompressed file gone) if gzip succeeded and only the stat failed.
C3_CompressionFailureKeepsArtifact ==
    \A p \in Procs :
        (Returned(p) /\ CompressFailed(p)) =>
            /\ result[p].success
            /\ Done(p) => exitCode[p] = 0
            /\ outcome[p].gzip = "failed" =>
                  /\ filepath[p] \in DOMAIN dir
                  /\ (filepath[p] \o GzExt) \notin DOMAIN dir
            /\ outcome[p].gzip = "ok" =>
                  /\ filepath[p] \notin DOMAIN dir
                  /\ (filepath[p] \o GzExt) \in DOMAIN dir

\* a run has exited with 0 after gzip failed, the uncompressed dump in place
C3_Witness ==
    \E p \in Procs :
        /\ Done(p) /\ exitCode[p] = 0
        /\ outcome[p].dump = "ok" /\ outcome[p].gzip = "failed"
        /\ filepath[p] \in DOMAIN dir

\* C4: of two calls of cleanOldBackups in succession, the second removes
\* nothing and keeps as many artifacts as the first one left.
C4_SecondSweepRemovesNothing ==
    \A k \in 2..Len(sweeps) :
        /\ sweeps[k].removed = 0
        /\ sweeps[k].kept = Cardinality(readdirFiltered(sweeps[k - 1].after))

\* C5: during and after a manual run, every artifact that was in the directory
\* when the run started is still there under its name.
C5_ManualRunDeletesNothing ==
    \A p \in Procs :
        (pc[p] # "idle" /\ ~isScheduled[p]) =>
            \A f \in readdirFiltered(dirAtStart[p]) : f \in DOMAIN dir

\* n days in seconds
Days(n) == n * 86400

\* a manual run has exited with 0 and the directory it started with held an
\* artifact older than 84 days, which a sweep of this run would have deleted
C5_Witness ==
    \E p \in Procs :
        /\ Done(p) /\ exitCode[p] = 0 /\ ~isScheduled[p]
        /\ \E f \in readdirFiltered(dirAtStart[p]) : now - dirAtStart[p][f].mtime >= Days(84)

\* the retention rule, for the file at position i (1 = newest) of the ranking
\* of sweep s
RuleKeeps(s, i) ==
    LET age   == s.now - s.before[s.files[i].name].mtime
        index == i - 1
    IN  \/ age < Days(s.retention.daily)
        \/ age < Days(7 * s.retention.weekly) /\ index % 7 = 0
        \/ age < Days(30 * s.retention.monthly) /\ index % 30 = 0

\* the ranking of sweep s lists each candidate of the directory once, newest
\* first
RankingOf(s) ==
    LET n == Len(s.files) IN
    /\ {s.files[i].name : i \in 1..n} = readdirFiltered(s.before)
    /\ n = Cardinality(readdirFiltered(s.before))
    /\ \A i, j \in 1..n :
          i < j => s.before[s.files[i].name].mtime >= s.before[s.files[j].name].mtime

\* C6: a sweep that raised no error ranked the candidates newest first, and
\* the files it left are the non-candidates and the candidates the rule
\* keeps, with index the place in that ranking; it changed no file it left.
C6_SweepFollowsRule ==
    \A k \in 1..Len(sweeps) :
        LET s == sweeps[k] IN
        ~s.error =>
            /\ RankingOf(s)
            /\ DOMAIN s.after =
                  ((DOMAIN s.before) \ readdirFiltered(s.before))
                     \cup {s.files[i].name : i \in {j \in 1..Len(s.files) : RuleKeeps(s, j)}}
            /\ \A f \in DOMAIN s.after : s.after[f] = s.before[f]
            /\ s.kept = Cardinality({j \in 1..Len(s.files) : RuleKeeps(s, j)})
            /\ s.removed = Cardinality({j \in 1..Len(s.files) : ~RuleKeeps(s, j)})

\* a sweep deleted files, kept one past the daily window by the weekly rule
\* and one past the weekly window by the monthly rule, neither at index 0
C6_Witness ==
    \E k \in 1..Len(sweeps) :
        LET s == sweeps[k] IN
        /\ ~s.error /\ s.removed > 0
        /\ \E i \in 2..Len(s.files) :
              /\ s.files[i].name \in DOMAIN s.after
              /\ s.now - s.files[i].time >= Days(s.retention.daily)
              /\ (i - 1) % 7 = 0 /\ (i - 1) % 30 # 0
        /\ \E i \in 2..Len(s.files) :
              /\ s.files[i].name \in DOMAIN s.after
              /\ s.now - s.files[i].time >= Days(7 * s.retention.weekly)
              /\ (i - 1) % 30 = 0

\* sweep s ran on the example: 40 artifacts, the one at index i between i and
\* i + 1 days old, and a daily window of 30 days
IsExample(s) ==
    /\ Len(s.files) = 40
    /\ s.retention.daily = 30
    /\ \A i \in 1..40 :
          /\ s.now - s.files[i].time >= Days(i - 1)
          /\ s.now - s.files[i].time < Days(i)

\* the indices (0 = newest) of the files sweep s left
KeptIndices(s) == {i - 1 : i \in {j \in 1..Len(s.files) : s.files[j].name \in DOMAIN s.after}}

\* C7 as stated: on the example one sweep keeps indices 0 to 29 and, of 30 to
\* 39, index 35 alone.
C7_ExampleKeepsOnly35 ==
    \A k \in 1..Len(sweeps) :
        IsExample(sweeps[k]) => KeptIndices(sweeps[k]) = (0..29) \cup {35}

\* C7 amended: on the example, with the weekly window of 12 weeks, one sweep
\* keeps indices 0 to 29 and, of 30 to 39, index 35 by the weekly rule and,
\* when the monthly window is longer than a month (12 as configured), index
\* 30 by the monthly rule; index 35 alone when the monthly window is 1 month.
C7_ExampleKeeps30And35 ==
    \A k \in 1..Len(sweeps) :
        LET s == sweeps[k] IN
        (IsExample(s) /\ s.retention.weekly = 12) =>
            /\ s.retention.monthly = 12 => KeptIndices(s) = (0..29) \cup {30, 35}
            /\ s.retention.monthly = 1 => KeptIndices(s) = (0..29) \cup {35}
            /\ s.removed = 40 - Cardinality(KeptIndices(s))

\* the example has been swept under the configured windows
C7_Witness ==
    \E k \in 1..Len(sweeps) :
        /\ IsExample(sweeps[k])
        /\ sweeps[k].retention = CONFIG_retention
        /\ sweeps[k].removed = 8

\* C8: when a run whose performBackup returned success has exited, exactly one
\* artifact is in the directory that was not there when the run started, and
\* the size in the result is that file's size on disk (in the result's unit,
\* hundredths of a megabyte).
C8_OneNewArtifactOfReportedSize ==
    \A p \in Procs :
        (Done(p) /\ result[p].success) =>
            LET new == readdirFiltered(dir) \ DOMAIN dirAtStart[p] IN
            /\ Cardinality(new) = 1
            /\ \A f \in new : toFixed2MB(dir[f].size) = result[p].size

\* C9: of two names given at instants at least one second apart, the earlier
\* one is the smaller string.
C9_NamesSortChronologically ==
    names # <<>> => LexLess(names[1], names[2])

\* the stages of a run that ran to its end, given what performBackup returned
ExpectedStages(ok, sched) ==
    IF ok
    THEN <<"ENSURE_DIRECTORY", "DUMP", "COMPRESS">>
            \o (IF sched THEN <<"RETAIN">> ELSE <<>>) \o <<"NOTIFY", "END">>
    ELSE <<"ENSURE_DIRECTORY", "DUMP", "NOTIFY", "END">>

IsPrefix(s, t) == Len(s) <= Len(t) /\ SubSeq(t, 1, Len(s)) = s

\* C10: the stages of a run are at every moment the beginning of one of the
\* two orders, for this run's mode; a run that reached DUMP and exited went
\* through the whole order of its dump's outcome (so COMPRESS and RETAIN only
\* after a successful dump, RETAIN only if scheduled, NOTIFY once, just
\* before END), and the result notified is the one performBackup returned.
C10_StageOrder ==
    \A p \in Procs :
        /\ \E ok \in BOOLEAN : IsPrefix(stages[p], ExpectedStages(ok, isScheduled[p]))
        /\ (Done(p) /\ Len(stages[p]) >= 2) =>
              /\ stages[p] = ExpectedStages(result[p].success, isScheduled[p])
              /\ notified[p] = <<result[p]>>
        /\ (Returned(p) /\ ~result[p].success) =>
              \A i \in 1..Len(stages[p]) : stages[p][i] \notin {"COMPRESS", "RETAIN"}
        /\ Returned(p) => (result[p].success <=> outcome[p].dump = "ok" /\ outcome[p].stat = "ok")

\* a scheduled run went through all six stages
C10_Witness ==
    \E p \in Procs :
        /\ Done(p)
        /\ stages[p] = <<"ENSURE_DIRECTORY", "DUMP", "COMPRESS", "RETAIN", "NOTIFY", "END">>

\* the positions of the ranking of sweep s whose file the sweep deleted
DeletedAt(s) == {i \in 1..Len(s.files) : s.files[i].name \notin DOMAIN s.after}

\* sweep s ended in an error it caught: if the listing failed nothing was
\* touched; otherwise one unlinkSync threw, at a file the rule rejects, the
\* rejected files ranked before it are deleted and counted, and nothing ranked
\* after it is; every file left is as it was
PartialSweep(s) ==
    /\ DOMAIN s.after \subseteq DOMAIN s.before
    /\ \A f \in DOMAIN s.after : s.after[f] = s.before[f]
    /\ (DOMAIN s.before) \ DOMAIN s.after = {s.files[i].name : i \in DeletedAt(s)}
    /\ s.removed = Cardinality(DeletedAt(s))
    /\ IF s.files = <<>>
       THEN s.after = s.before
       ELSE /\ RankingOf(s)
            /\ \E e \in 1..Len(s.files) :
                  /\ ~RuleKeeps(s, e)
                  /\ DeletedAt(s) = {i \in 1..(e - 1) : ~RuleKeeps(s, i)}
                  /\ s.kept = Cardinality({i \in 1..(e - 1) : RuleKeeps(s, i)})

\* C11: when the sweep of a run ended in a filesystem error, the error stayed
\* inside the sweep: the run's result is still a success, the run goes on to
\* notify and exits with 0, its own artifact is in the directory, the files
\* deleted before the error stay deleted and no file is deleted after it, in
\* the sweep or in the rest of the run.
C11_SweepErrorIsContained ==
    \A p \in Procs : \A k \in OwnSweeps(p) :
        sweeps[k].error =>
            /\ PartialSweep(sweeps[k])
            /\ pc[p] \in {"notify", "exit", "done"}
            /\ result[p].success
            /\ pc[p] \in {"exit", "done"} =>
                  notified[p] = <<result[p]>> /\ stages[p][Len(stages[p]) - (IF Done(p) THEN 1 ELSE 0)] = "NOTIFY"
            /\ Done(p) => exitCode[p] = 0
            /\ dir = sweeps[k].after
            /\ \E f \in OwnArtifacts(p) : f \in {filepath[p], filepath[p] \o GzExt}

\* a run has exited after a sweep that deleted one file and failed on the next
C11_Witness ==
    \E p \in Procs : \E k \in OwnSweeps(p) :
        /\ Done(p)
        /\ sweeps[k].error /\ sweeps[k].removed = 1
        /\ Cardinality(DOMAIN sweeps[k].before) = 3
        /\ Cardinality(DOMAIN dir) = 2

\* "0".."9"
IsDigit(c) == c \in 48..57

\* f has the form getBackupFilename gives a name, zone2514_backup_ then
\* YYYY-MM-DD, "_", HH-MM-SS and ".sql", as it is or with gzip's ".gz"
IsArtifactName(f) ==
    /\ startsWith(f, Prefix)
    /\ Len(f) \in {Len(Prefix) + 23, Len(Prefix) + 23 + Len(GzExt)}
    /\ LET stamp == SubSeq(f, Len(Prefix) + 1, Len(Prefix) + 19) IN
       /\ \A i \in {1, 2, 3, 4, 6, 7, 9, 10, 12, 13, 15, 16, 18, 19} : IsDigit(stamp[i])
       /\ \A i \in {5, 8, 14, 17} : stamp[i] = Dash
       /\ <<stamp[11]>> = Underscore
    /\ SubSeq(f, Len(Prefix) + 20, Len(Prefix) + 23) = SqlExt
    /\ Len(f) > Len(Prefix) + 23 => SubSeq(f, Len(Prefix) + 24, Len(f)) = GzExt

\* C12: a sweep ranks exactly the entries of the directory whose name has the
\* form of an artifact name, and every other entry of the directory is still
\* there after the sweep.
C12_OnlyArtifactNamesAreSwept ==
    \A k \in 1..Len(sweeps) :
        LET s == sweeps[k] IN
        /\ {s.files[i].name : i \in 1..Len(s.files)}
              = {f \in DOMAIN s.before : IsArtifactName(f)}
        /\ \A f \in DOMAIN s.before : ~IsArtifactName(f) => f \in DOMAIN s.after

\* the part of C12 the filter does ensure: an entry whose name does not start
\* with zone2514_backup_ is neither ranked nor deleted
C12_UnprefixedEntriesAreLeft ==
    \A k \in 1..Len(sweeps) :
        LET s == sweeps[k] IN
        \A f \in DOMAIN s.before :
            ~startsWith(f, Prefix) =>
                /\ f \in DOMAIN s.after
                /\ \A i \in 1..Len(s.files) : s.files[i].name # f

\* a sweep ranked README.md among the artifacts and deleted it
C12_ReadmeDeleted ==
    \E k \in 1..Len(sweeps) :
        /\ ReadmeName \in DOMAIN sweeps[k].before
        /\ ReadmeName \notin DOMAIN sweeps[k].after
        /\ NotesName \in DOMAIN sweeps[k].after

\* C13: a run that has started goes on until the process has exited; the
\* process never exits without one of the exit codes 0 and 1, and a run that
\* ended with an error escaping run(), before performBackup returned, exited
\* with 1.
C13_ExitsWithCode ==
    /\ [](\A p \in Procs : Done(p) => exitCode[p] \in {0, 1})
    /\ [](\A p \in Procs : (Done(p) /\ ~Returned(p)) => exitCode[p] = 1)
    /\ [](\A p \in Procs : ~Done(p) => exitCode[p] = NoCode)
    /\ \A p \in Procs : (pc[p] = "ensure") ~> Done(p)

\* mkdirSync threw in ensureBackupDirectory and the process has exited with 1
C13_Witness ==
    \E p \in Procs :
        /\ Done(p) /\ exitCode[p] = 1
        /\ stages[p] = <<"ENSURE_DIRECTORY">>
        /\ ~dirExists

\* C14: when sendNotification has just been handed the result of a successful
\* run, the path in that result is the name of a file of the directory.
C14_NotifiedPathExists ==
    \A p \in Procs :
        pc[p] = "exit" =>
            \A i \in 1..Len(notified[p]) :
                notified[p][i].success => notified[p][i].filepath \in DOMAIN dir

\* the result notified carries the path of the dump, which gzip has replaced
C14_StalePathNotified ==
    \E p \in Procs :
        /\ pc[p] = "exit" /\ notified[p] # <<>>
        /\ notified[p][1].success
        /\ notified[p][1].filepath = filepath[p]
        /\ filepath[p] \notin DOMAIN dir
        /\ (filepath[p] \o GzExt) \in DOMAIN dir

\* q's run started before p's and is still going on
Overlaps(p, q) == q # p /\ ~Idle(q) /\ runId[q] < runId[p] /\ runId[p] > 0

\* C15: when a run that overlapped another one has exited, its exit code is 0
\* if its own pg_dump export succeeded and 1 if it did not.
C15_OverlapKeepsExitCode ==
    \A p \in Procs :
        (Done(p) /\ \E q \in Procs : Overlaps(p, q)) =>
            (exitCode[p] = 0 <=> outcome[p].dump = "ok")

\* what does hold of overlapping runs: each exits with 0 exactly when its own
\* export and its own statSync of the dump file succeeded
C15_OverlapExitFollowsOwnResult ==
    \A p \in Procs :
        Done(p) => (exitCode[p] = 0 <=> (outcome[p].dump = "ok" /\ outcome[p].stat = "ok"))

\* two runs gave their dumps the same name, q's gzip has already replaced the
\* file, and p, whose export succeeded, is about to stat a file that is gone
C15_SharedFileGone ==
    \E p, q \in Procs :
        /\ p # q /\ pc[p] = "stat" /\ pc[q] = "gzstat"
        /\ filepath[p] = filepath[q]
        /\ outcome[p].dump = "ok"
        /\ filepath[p] \notin DOMAIN dir

\* the artifact of p's current run is in the directory d, as the dump or as
\* gzip's replacement of it
OwnArtifactIn(p, d) ==
    \E f \in {filepath[p], filepath[p] \o GzExt} : f \in DOMAIN d /\ d[f].run = runId[p]

\* a step that takes a candidate artifact out of the directory is gzip
\* replacing the dump its own run has just written by the .gz, or the sweep
\* of a scheduled run whose performBackup returned success, taking a file of
\* an earlier run and leaving this run's artifact
RemovalIsByNewerSuccess ==
    \A f \in readdirFiltered(dir) :
        f \notin DOMAIN dir' =>
            \E p \in Procs :
                \/ /\ pc[p] = "gzip" /\ f = filepath[p] /\ dir[f].run = runId[p]
                   /\ (f \o GzExt) \in DOMAIN dir'
                \/ /\ pc[p] = "retain" /\ isScheduled[p] /\ result[p].success
                   /\ retention.daily >= 1
                   /\ dir[f].run # runId[p]
                   /\ OwnArtifactIn(p, dir')

\* C16: from the moment performBackup has returned success, through the
\* sweep and after the exit, the artifact of that run is in the directory;
\* and no later step removes it but the sweep of a later successful run,
\* which leaves that run's own artifact.  So the artifact of the most recent
\* successful run is in the directory at every moment.
C16_NewestArtifactSurvives ==
    /\ [](\A p \in Procs : (Returned(p) /\ result[p].success) => OwnArtifactIn(p, dir))
    /\ [][RemovalIsByNewerSuccess]_vars

\* the third run, scheduled, has swept away the artifacts of the two runs
\* before it and exited, its own compressed artifact in place
C16_Witness ==
    \E p \in Procs : \E k \in OwnSweeps(p) :
        /\ Done(p) /\ isScheduled[p] /\ exitCode[p] = 0
        /\ ~sweeps[k].error /\ sweeps[k].removed = 2
        /\ DOMAIN dir = {filepath[p] \o GzExt}

\* C17: a sweep that raised no error listed every candidate of the directory
\* once, counted each of them either as kept or as removed, and the
\* candidates left in the directory are as many as it counted kept, all of
\* them candidates from before, the others, as many as counted removed, gone.
C17_SweepPartitionsCandidates ==
    \A k \in 1..Len(sweeps) :
        LET s      == sweeps[k]
            listed == {s.files[i].name : i \in 1..Len(s.files)}
            left   == readdirFiltered(s.after)
        IN  ~s.error =>
                /\ listed = readdirFiltered(s.before)
                /\ Cardinality(listed) = Len(s.files)
                /\ s.kept + s.removed = Len(s.files)
                /\ left \subseteq listed
                /\ Cardinality(left) = s.kept
                /\ Cardinality(listed \ left) = s.removed

\* a sweep of more than 40 candidates, two of them of the same second, kept
\* some and removed some
C17_Witness ==
    \E k \in 1..Len(sweeps) :
        LET s == sweeps[k] IN
        /\ ~s.error /\ Len(s.files) > 40
        /\ s.kept > 0 /\ s.removed > 0
        /\ \E i \in 1..(Len(s.files) - 1) : s.files[i].time = s.files[i + 1].time

\* p's run is past ensureBackupDirectory, which returned
PastEnsure(p) == pc[p] \in {"dump", "stat", "gzip", "gzstat", "retain", "notify", "exit"}

\* what one call of ensureBackupDirectory by p does: the files of the
\* directory are as they were; if the directory was there the call returns
\* and it is still there; if the call returns the directory is there
EnsureStep ==
    \A p \in Procs :
        (pc[p] = "ensure" /\ pc'[p] # "ensure") =>
            /\ dir' = dir
            /\ dirExists => (dirExists' /\ pc'[p] = "dump")
            /\ pc'[p] = "dump" => dirExists'
            /\ pc'[p] \in {"dump", "fatal"}

\* C18: a call of ensureBackupDirectory that returns leaves the directory in
\* existence; on a directory that exists it returns without an error and
\* changes nothing, in every run; and the directory exists when pg_dump is
\* started and for the rest of the run.
C18_EnsureIsIdempotent ==
    /\ [](\A p \in Procs : PastEnsure(p) => dirExists)
    /\ [][EnsureStep]_vars

\* a later run has called ensureBackupDirectory on the directory an earlier
\* run left, artifacts in it, and is about to start pg_dump
C18_Witness ==
    \E p \in Procs :
        /\ pc[p] = "dump" /\ runId[p] >= 2
        /\ stages[p] = <<"ENSURE_DIRECTORY">>
        /\ dirExists /\ DOMAIN dir # {} /\ dir = dirAtStart[p]

=============================================================================
